---- MODULE Spec2Model ----
(***************************************************************************)
(* Model of src/src/sdo-notifications.ts: the SdoNotifications hub, the   *)
(* Provider.fetchUrl helper, the private StopProvider and the exported    *)
(* CredentialProvider, on Node's single-threaded event loop.  One action  *)
(* is one callback run to completion (a timer callback, an http event, a  *)
(* call made by the host), together with the promise continuations that   *)
(* the callback makes runnable.                                            *)
(***************************************************************************)
EXTENDS Integers, Sequences, FiniteSets, TLC

\* ------------------------------------------------------------------ bounds
NumCred == 1          \* CredentialProvider instances the host constructs
MaxHubInits == 2      \* calls of SdoNotifications.initialize()
MaxInitCalls == 2     \* host calls of initialize() on one CredentialProvider
MaxHostCalls == 3     \* calls the host makes in one behaviour
MaxFetches == 2       \* http requests issued in one behaviour
MaxOpen == 1          \* http requests open at the same time
MaxTimers == 3        \* timers created in one behaviour
MaxTime == 10000      \* the clock stops advancing here (ms)
TimeStep == 5000      \* largest step of the clock when no timer is due (ms)
MaxChunks == 2        \* "data" events of one response body

\* ------------------------------------------------------- program constants
stopPollIntervalMs == 5000
credentialTimeBufferMs == 60000
credentialsKey == "AwsAccess"

\* ------------------------------------------------------------- value sets
CredProviders == 1..NumCred
StopProviders == (NumCred + 1)..(NumCred + MaxHubInits)
Providers == CredProviders \cup StopProviders

\* process.env.SDO_STOP_URL / SDO_CREDENTIALS_URL: unset, a URL, or a string
\* that new URL() does not accept.
UrlValues == {"absent", "valid", "invalid"}

\* The Credentials type: two records the endpoint may hand out.
CredentialRecords ==
    <<[accessKeyId |-> "idA", secretAccessKey |-> "secretA",
       sessionToken |-> "tokenA", region |-> "regionA"],
      [accessKeyId |-> "idB", secretAccessKey |-> "secretB",
       sessionToken |-> "tokenB", region |-> "regionB"]>>

Unset == "unset"
UnsetEnv == [AWS_ACCESS_KEY_ID |-> Unset, AWS_SECRET_ACCESS_KEY |-> Unset,
             AWS_SESSION_TOKEN |-> Unset, AWS_DEFAULT_REGION |-> Unset]

\* A JSON document, and the values fetchUrl resolves to.  kind:
\*   "bool"    the bare boolean `stop`
\*   "stopobj" the object {"stop": stop}
\*   "creds"   {"expirationEpoch": exp, "credentials": {r: record `cred`, r in roles}}
\*   "garbage" text that JSON.parse rejects
\*   "null"    the value null;  "none": no value yet
Doc(kind, stop, exp, roles, cred) ==
    [kind |-> kind, stop |-> stop, exp |-> exp, roles |-> roles, cred |-> cred]
Null == Doc("null", FALSE, 0, {}, 0)
NoResponse == Doc("none", FALSE, 0, {}, 0)

\* Offsets of expirationEpoch from the time the response is produced (ms).
ExpOffsets == <<65000, 30000>>

StopDocs ==
    {Doc("bool", TRUE, 0, {}, 0), Doc("stopobj", TRUE, 0, {}, 0),
     Doc("stopobj", FALSE, 0, {}, 0), Doc("garbage", FALSE, 0, {}, 0)}

CredDocs(t) ==
    {Doc("creds", FALSE, t + ExpOffsets[c], {credentialsKey}, c) :
        c \in 1..Len(CredentialRecords)}
    \cup {Doc("creds", FALSE, t + 65000, {"OtherRole"}, 1),
          Doc("stopobj", FALSE, 0, {}, 0),
          Doc("garbage", FALSE, 0, {}, 0)}

\* The bodies sent with a failure status: a well-formed document that would
\* request a stop or set credentials, and malformed text.
FailureDocs(t) ==
    {Doc("stopobj", TRUE, 0, {}, 0), Doc("creds", FALSE, t + 65000, {credentialsKey}, 1),
     Doc("garbage", FALSE, 0, {}, 0)}

StatusCodes == {200, 404}

VARIABLES
    now,              \* (new Date()).getTime(), ms since the start
    sdoStopUrl,       \* process.env.SDO_STOP_URL
    sdoCredentialsUrl,\* process.env.SDO_CREDENTIALS_URL
    awsEnv,           \* the four AWS_* slots of process.env
    hasCallback,      \* SdoNotifications.shouldStopCallback != null
    callbackCalls,    \* runs of the external stop notification (capped)
    stopNeeded,       \* SdoNotifications.stopNeeded
    allProviders,     \* SdoNotifications.allProviders (<<>>: undefined)
    hubCalls,         \* one record per call of SdoNotifications.initialize()
    timeoutHandle,    \* provider -> its timeoutHandle field (0: null)
    timers,           \* the armed timers of the event loop
    nextTimerId,
    fetches,          \* http requests whose promise is still pending
    nextFetchId,
    initCount,        \* provider -> host calls of initialize() on it
    destroyed,        \* provider -> destroy() ran after its last host initialize()
    destroyCalls,     \* provider -> destroy() calls on it since its last initialize()
    lastResponse,     \* StopProvider -> the last value its fetchUrl resolved to
    unhandled,        \* a promise nobody awaits was rejected
    hostCalls,        \* calls the host has made so far
    fetchRejected     \* a promise returned by fetchUrl was rejected

vars == <<now, sdoStopUrl, sdoCredentialsUrl, awsEnv, hasCallback,
          callbackCalls, stopNeeded, allProviders, hubCalls, timeoutHandle, timers, nextTimerId, fetches, nextFetchId,
          initCount, destroyed, destroyCalls, lastResponse, unhandled,
          hostCalls, fetchRejected>>

\* ------------------------------------------------------------------ helpers
Min(S) == CHOOSE x \in S : \A y \in S : x <= y

RECURSIVE SetToSeq(_)
SetToSeq(S) ==
    IF S = {} THEN <<>>
    ELSE LET m == Min(S) IN <<m>> \o SetToSeq(S \ {m})

Rank(p, S) == Cardinality({q \in S : q < p})

IsStopProvider(p) == p \in StopProviders

\* ------------------------------------------------------------ Provider.fetchUrl
\* Two executors without the `url == null` branch: one hands the absent URL to
\* new URL(), which throws; one sends a request all the same.  Then the
\* synchronous part of fetchUrl: what the promise executor does.
\*   "null"    resolve(null) at once (line 72)
\*   "throw"   new URL(url) throws inside the executor: the promise rejects
\*   "request" the request is sent; the promise stays pending
FetchStartAbsentThrows(url) ==
    IF url = "valid" THEN "request" ELSE "throw"

FetchStartAbsentRequests(url) ==
    IF url = "invalid" THEN "throw" ELSE "request"

FetchStart(url) ==
    CASE url = "absent" -> "null"
      [] url = "invalid" -> "throw"
      [] OTHER -> "request"

\* A check that lets every status below 500 through as a success.
IsFailureStatusServerOnly(statusCode) == statusCode >= 500

\* statusCode < 200 || statusCode >= 300
IsFailureStatus(statusCode) == statusCode < 200 \/ statusCode >= 300

\* A response body is the text of one document cut into n chunks; chunk i
\* of n of document d stands for that piece of the text.
Chunk(d, i, n) == [doc |-> d, part |-> i, of |-> n]
BodyOf(d, n) == [i \in 1..n |-> Chunk(d, i, n)]

\* JSON.parse(data): the accumulated text parses iff it is the whole text
\* of a well-formed document.
JSONParses(data) ==
    /\ Len(data) > 0
    /\ data = BodyOf(data[1].doc, data[1].of)
    /\ data[1].doc.kind # "garbage"

\* An "end" handler that hands on the text it received without parsing it.
EndResultUnparsed(data) == IF Len(data) > 0 THEN data[1].doc ELSE Null

\* The value the "end" handler resolves the promise with (lines 93-101).
EndResult(data) == IF JSONParses(data) THEN data[1].doc ELSE Null


\* ------------------------------------------------------------------- timers
\* setTimeout/setInterval run a callback with a delay below 1 ms after 1 ms.
SetTimeoutDelay(ms) == IF ms < 1 THEN 1 ELSE ms

Timer(id, owner, ms, repeat) ==
    [id |-> id, owner |-> owner, delay |-> ms,
     deadline |-> now + SetTimeoutDelay(ms), repeat |-> repeat]

\* A destroy() whose null check is inverted: with no handle stored it
\* disarms every timer.
ClearTimerUnguarded(ts, handle) == {t \in ts : handle # 0 /\ t.id # handle}

\* clearInterval(handle) / clearTimeout(handle) guarded by handle != null:
\* the timer the handle names is disarmed, if it is still armed.
ClearTimer(ts, handle) == {t \in ts : handle = 0 \/ t.id # handle}

Due(t) == t.deadline <= now

\* --------------------------------------------------------------- StopProvider
\* A tick that treats a failed fetch (null) as a request to stop.
StopRequestedAlsoOnNull(response) ==
    \/ response.kind = "null"
    \/ response.kind = "stopobj" /\ response.stop

\* response != null && response.stop  (line 130)
StopRequested(response) ==
    /\ response.kind # "null"
    /\ response.kind = "stopobj"
    /\ response.stop

\* A callback that flips the flag instead of setting it.
StopCallbackToggles(prev) == ~prev

\* A callback that only notifies the host and leaves the flag alone.
StopCallbackKeeps(prev) == prev

\* The callback the hub gives its StopProvider (lines 38-43): the new value
\* of stopNeeded.
StopCallbackFlag(prev) == TRUE

MaxCallbackCalls == 2

\* ---------------------------------------------------------- CredentialProvider
\* expirationDate.getTime() - nowMs - this.credentialTimeBufferMs
MsTillExpiration(expirationEpoch, nowMs) ==
    expirationEpoch - nowMs - credentialTimeBufferMs

\* The clock read before the await, when the request is issued.
CycleNowAtIssue(issuedAt, completedAt) == issuedAt

\* const nowMs = (new Date()).getTime()  (line 198): read after the await,
\* when the fetch has completed.
CycleNowMs(issuedAt, completedAt) == completedAt

\* A cycle that takes the first record of the payload without looking for the
\* role key.
CredOutcomeAnyRole(response) ==
    CASE response.kind = "null" -> "local"
      [] response.kind # "creds" -> "throw"
      [] OTHER -> "set"

\* What one cycle does with the value fetchUrl resolved to:
\*   "local"    response == null: return (lines 174-178)
\*   "throw"    response.credentials is undefined: indexing it throws
\*   "missing"  no record for the role key: return (lines 187-190)
\*   "set"      write the environment and arm the timer (lines 191-202)
CredOutcome(response) ==
    CASE response.kind = "null" -> "local"
      [] response.kind # "creds" -> "throw"
      [] credentialsKey \notin response.roles -> "missing"
      [] OTHER -> "set"

\* A cycle that is suspended after the second write: the last two slots keep
\* what they held.
EnvFromFirstTwo(clientAccessCredentials) ==
    [AWS_ACCESS_KEY_ID |-> clientAccessCredentials.accessKeyId,
     AWS_SECRET_ACCESS_KEY |-> clientAccessCredentials.secretAccessKey,
     AWS_SESSION_TOKEN |-> awsEnv.AWS_SESSION_TOKEN,
     AWS_DEFAULT_REGION |-> awsEnv.AWS_DEFAULT_REGION]

\* The four assignments of lines 192-195, which run without an await
\* between them: the environment after them.
EnvFrom(clientAccessCredentials) ==
    [AWS_ACCESS_KEY_ID |-> clientAccessCredentials.accessKeyId,
     AWS_SECRET_ACCESS_KEY |-> clientAccessCredentials.secretAccessKey,
     AWS_SESSION_TOKEN |-> clientAccessCredentials.sessionToken,
     AWS_DEFAULT_REGION |-> clientAccessCredentials.region]

\* ------------------------------------------------------------- hub bookkeeping
\* Promise.allSettled: the promise of provider p in call k has settled.
Settle(calls, k, p, rejects) ==
    IF k = 0 THEN calls
    ELSE [calls EXCEPT ![k].awaiting = @ \ {p},
                       ![k].rejected = IF rejects THEN @ \cup {p} ELSE @]

\* A rejected promise that nothing awaits: the async timer callbacks.
Unawaited(origin) == origin = "timer"

\* ------------------------------------------------------------------- Init
Init ==
    /\ now = 0
    /\ sdoStopUrl \in UrlValues
    /\ sdoCredentialsUrl \in UrlValues
    /\ awsEnv = UnsetEnv
    /\ hasCallback = TRUE      \* constructed with a stopNotification
    /\ callbackCalls = 0
    /\ stopNeeded = FALSE
    /\ allProviders = <<>>
    /\ hubCalls = <<>>
    /\ timeoutHandle = [p \in Providers |-> 0]
    /\ timers = {}
    /\ nextTimerId = 1
    /\ fetches = {}
    /\ nextFetchId = 1
    /\ initCount = [p \in Providers |-> 0]
    /\ destroyed = [p \in Providers |-> FALSE]
    /\ destroyCalls = [p \in Providers |-> 0]
    /\ lastResponse = [p \in StopProviders |-> NoResponse]
    /\ unhandled = FALSE
    /\ hostCalls = 0
    /\ fetchRejected = FALSE

\* ------------------------------------------- continuation after `await fetchUrl`
\* The rest of the StopProvider tick (lines 130-133) once fetchUrl has
\* resolved to `response`; ts is the set of armed timers the callback
\* started from.  The callback of lines 38-43 sets the flag and notifies.
StopResolved(p, response, ts) ==
    /\ lastResponse' = [lastResponse EXCEPT ![p] = response]
    /\ IF StopRequested(response)
       THEN /\ stopNeeded' = StopCallbackFlag(stopNeeded)
            /\ callbackCalls' =
                  IF hasCallback /\ callbackCalls < MaxCallbackCalls
                  THEN callbackCalls + 1 ELSE callbackCalls
       ELSE UNCHANGED <<stopNeeded, callbackCalls>>
    /\ timers' = ts
    /\ UNCHANGED <<awsEnv, timeoutHandle, nextTimerId, hubCalls, unhandled,
                   fetchRejected>>

\* The rest of CredentialProvider.initialize (lines 174-202) once fetchUrl
\* has resolved to `response`, for the cycle started by `origin` that call k
\* of the hub awaits (k = 0: none).
CredResolved(p, origin, k, response, issuedAt, ts) ==
    LET o == CredOutcome(response) IN
    /\ IF o = "set"
       THEN /\ nextTimerId <= MaxTimers
            /\ awsEnv' = EnvFrom(CredentialRecords[response.cred])
            /\ timers' =
                  ts \cup {Timer(nextTimerId, p,
                                 MsTillExpiration(response.exp,
                                                  CycleNowMs(issuedAt, now)),
                                 FALSE)}
            /\ timeoutHandle' = [timeoutHandle EXCEPT ![p] = nextTimerId]
            /\ nextTimerId' = nextTimerId + 1
       ELSE /\ timers' = ts
            /\ UNCHANGED <<awsEnv, timeoutHandle, nextTimerId>>
    /\ hubCalls' = Settle(hubCalls, k, p, o = "throw")
    /\ unhandled' = (unhandled \/ (o = "throw" /\ Unawaited(origin)))
    /\ UNCHANGED <<lastResponse, stopNeeded, callbackCalls, fetchRejected>>

Resolved(p, origin, k, response, issuedAt, ts) ==
    IF IsStopProvider(p)
    THEN StopResolved(p, response, ts)
    ELSE CredResolved(p, origin, k, response, issuedAt, ts)

\* fetchUrl rejected (new URL threw): the awaiting async function rejects.
Rejected(p, origin, k, ts) ==
    /\ hubCalls' = Settle(hubCalls, k, p, TRUE)
    /\ unhandled' = (unhandled \/ Unawaited(origin))
    /\ fetchRejected' = TRUE
    /\ timers' = ts
    /\ UNCHANGED <<lastResponse, stopNeeded, callbackCalls, awsEnv,
                   timeoutHandle, nextTimerId>>

Fetch(id, p, origin, k) ==
    [id |-> id, owner |-> p, origin |-> origin, call |-> k, issuedAt |-> now,
     phase |-> "sent", statusCode |-> 0, settled |-> FALSE,
     body |-> <<>>, data |-> <<>>]

\* One provider calls fetchUrl(url) and awaits it.
CallFetch(p, origin, k, url, ts) ==
    CASE FetchStart(url) = "null" ->
            /\ Resolved(p, origin, k, Null, now, ts)
            /\ UNCHANGED <<fetches, nextFetchId>>
      [] FetchStart(url) = "throw" ->
            /\ Rejected(p, origin, k, ts)
            /\ UNCHANGED <<fetches, nextFetchId>>
      [] OTHER ->
            /\ nextFetchId <= MaxFetches
            /\ Cardinality(fetches) < MaxOpen
            /\ fetches' = fetches \cup {Fetch(nextFetchId, p, origin, k)}
            /\ nextFetchId' = nextFetchId + 1
            /\ timers' = ts
            /\ UNCHANGED <<lastResponse, stopNeeded, callbackCalls, awsEnv,
                           timeoutHandle, nextTimerId, hubCalls, unhandled, fetchRejected>>


\* Promise continuations run before the event loop takes the next event: a
\* call of SdoNotifications.initialize() whose promises have all settled
\* returns before anything else happens.
HostCall ==
    /\ hostCalls < MaxHostCalls
    /\ hostCalls' = hostCalls + 1

\* A fail-fast join (Promise.all): rejects with the first rejection.
JoinFailFast(awaiting, rejected) ==
    IF rejected # {} THEN "rejected"
    ELSE IF awaiting = {} THEN "fulfilled" ELSE "pending"

\* return Promise.allSettled(allPromises)  (line 47): the state of the
\* promise initialize() returns, from the providers' promises.
JoinResult(awaiting, rejected) ==
    IF awaiting = {} THEN "fulfilled" ELSE "pending"

ReadyToReturn(k) ==
    /\ ~hubCalls[k].returned
    /\ JoinResult(hubCalls[k].awaiting, hubCalls[k].rejected) # "pending"
NoMicrotask == \A k \in 1..Len(hubCalls) : ~ReadyToReturn(k)

InFlight == {f \in fetches : ~f.settled}

\* ------------------------------------------------------------ SdoNotifications
\* initialize(providers): lines 35-48.  The synchronous part: build
\* allProviders, run every provider's initialize() up to its first await.
HubInitialize(extra) ==
    LET k == Len(hubCalls) + 1
        sp == NumCred + k
        start == IF extra = {} THEN "none" ELSE FetchStart(sdoCredentialsUrl)
        call == [providers |-> extra \cup {sp},
                 awaiting |-> IF start = "request" THEN extra ELSE {},
                 rejected |-> IF start = "throw" THEN extra ELSE {},
                 returned |-> FALSE, result |-> "pending",
                 calledAt |-> now, returnedAt |-> 0]
    IN  /\ NoMicrotask
        /\ HostCall
        /\ Len(hubCalls) < MaxHubInits
        /\ \A p \in extra : initCount[p] < MaxInitCalls
        /\ nextTimerId <= MaxTimers
        /\ start = "request" => nextFetchId + Cardinality(extra) - 1 <= MaxFetches
        /\ start = "request" => Cardinality(fetches) + Cardinality(extra) <= MaxOpen
        /\ allProviders' = SetToSeq(extra) \o <<sp>>
        /\ hubCalls' = Append(hubCalls, call)
        /\ fetches' =
              IF start = "request"
              THEN fetches \cup
                   {Fetch(nextFetchId + Rank(p, extra), p, "hub", k) : p \in extra}
              ELSE fetches
        /\ nextFetchId' =
              IF start = "request" THEN nextFetchId + Cardinality(extra)
              ELSE nextFetchId
        /\ timers' = timers \cup {Timer(nextTimerId, sp, stopPollIntervalMs, TRUE)}
        /\ timeoutHandle' = [timeoutHandle EXCEPT ![sp] = nextTimerId]
        /\ nextTimerId' = nextTimerId + 1
        /\ fetchRejected' = (fetchRejected \/ start = "throw")
        /\ initCount' =
              [p \in Providers |->
                  IF p \in extra \cup {sp} THEN initCount[p] + 1 ELSE initCount[p]]
        /\ destroyed' =
              [p \in Providers |->
                  IF p \in extra \cup {sp} THEN FALSE ELSE destroyed[p]]
        /\ destroyCalls' =
              [p \in Providers |->
                  IF p \in extra \cup {sp} THEN 0 ELSE destroyCalls[p]]
        /\ UNCHANGED <<now, sdoStopUrl, sdoCredentialsUrl, awsEnv, hasCallback,
                       callbackCalls, stopNeeded, lastResponse, unhandled>>

\* Promise.allSettled(allPromises) fulfils: initialize() returns.
HubInitReturn(k) ==
    /\ ReadyToReturn(k)
    /\ hubCalls' =
          [hubCalls EXCEPT
              ![k].returned = TRUE,
              ![k].result = JoinResult(hubCalls[k].awaiting, hubCalls[k].rejected),
              ![k].returnedAt = now]
    /\ UNCHANGED <<now, sdoStopUrl, sdoCredentialsUrl, awsEnv, hasCallback,
                   callbackCalls, stopNeeded, allProviders, timeoutHandle, timers, nextTimerId, fetches, nextFetchId,
                   initCount, destroyed, destroyCalls, lastResponse, unhandled, fetchRejected, hostCalls>>

\* stop() that destroys the caller's providers and forgets the built-in one.
StopTargetsExtrasOnly(all) == SubSeq(all, 1, Len(all) - 1)

\* The providers stop() calls destroy() on: this.allProviders?.forEach(...)
StopTargets(all) == all

RECURSIVE DestroyAll(_, _)
DestroyAll(ts, provs) ==
    IF provs = <<>> THEN ts
    ELSE DestroyAll(ClearTimer(ts, timeoutHandle[Head(provs)]), Tail(provs))

\* stop(): lines 50-52.
HubStop ==
    LET targets == StopTargets(allProviders)
        ran == {targets[i] : i \in 1..Len(targets)}
    IN  /\ NoMicrotask
        /\ HostCall
        /\ timers' = DestroyAll(timers, targets)
        /\ destroyed' = [p \in Providers |-> destroyed[p] \/ p \in ran]
        /\ destroyCalls' =
              [p \in Providers |->
                  IF p \in ran THEN destroyCalls[p] + 1 ELSE destroyCalls[p]]
        /\ UNCHANGED <<now, sdoStopUrl, sdoCredentialsUrl, awsEnv, hasCallback,
                       callbackCalls, stopNeeded, allProviders, hubCalls,
                       timeoutHandle, nextTimerId, fetches, nextFetchId,
                       initCount, lastResponse, unhandled, fetchRejected>>

\* shouldStop(): lines 54-56.
shouldStop == stopNeeded

\* ---------------------------------------------- CredentialProvider, host calls
\* The host calls initialize() on a CredentialProvider itself.
CredInitialize(p) ==
    /\ NoMicrotask
    /\ HostCall
    /\ initCount[p] < MaxInitCalls
    /\ initCount' = [initCount EXCEPT ![p] = @ + 1]
    /\ destroyed' = [destroyed EXCEPT ![p] = FALSE]
    /\ destroyCalls' = [destroyCalls EXCEPT ![p] = 0]
    /\ CallFetch(p, "host", 0, sdoCredentialsUrl, timers)
    /\ UNCHANGED <<now, sdoStopUrl, sdoCredentialsUrl, hasCallback,
                   allProviders>>

\* destroy(): lines 205-209 (and 137-141 through stop()).
CredDestroy(p) ==
    /\ NoMicrotask
    /\ HostCall
    /\ timers' = ClearTimer(timers, timeoutHandle[p])
    /\ destroyed' = [destroyed EXCEPT ![p] = TRUE]
    /\ destroyCalls' = [destroyCalls EXCEPT ![p] = @ + 1]
    /\ UNCHANGED <<now, sdoStopUrl, sdoCredentialsUrl, awsEnv, hasCallback,
                   callbackCalls, stopNeeded, allProviders, hubCalls,
                   timeoutHandle, nextTimerId, fetches,
                   nextFetchId, initCount, lastResponse, unhandled, fetchRejected>>

\* ------------------------------------------------------------- timer callbacks
\* The setInterval callback of a StopProvider (lines 128-134), up to the await.
StopTick(t) ==
    /\ NoMicrotask
    /\ t.repeat
    /\ Due(t)
    /\ CallFetch(t.owner, "timer", 0, sdoStopUrl,
                 (timers \ {t}) \cup
                    {[t EXCEPT !.deadline = now + SetTimeoutDelay(t.delay)]})
    /\ UNCHANGED <<now, sdoStopUrl, sdoCredentialsUrl, hasCallback,
                   allProviders, initCount, destroyed, destroyCalls, hostCalls>>

\* The setTimeout callback of a CredentialProvider: () => this.initialize().
CredTimerFire(t) ==
    /\ NoMicrotask
    /\ ~t.repeat
    /\ Due(t)
    /\ CallFetch(t.owner, "timer", 0, sdoCredentialsUrl, timers \ {t})
    /\ UNCHANGED <<now, sdoStopUrl, sdoCredentialsUrl, hasCallback,
                   allProviders, initCount, destroyed, destroyCalls, hostCalls>>


\* ----------------------------------------------------------------- http events
Replace(f, g) == (fetches \ {f}) \cup {g}

\* What the endpoint of a provider may answer with.
DocsFor(p, statusCode) ==
    IF IsFailureStatus(statusCode)
    THEN {d \in FailureDocs(now) : (d.kind = "creds") = ~IsStopProvider(p) \/ d.kind = "garbage"}
    ELSE IF IsStopProvider(p) THEN StopDocs ELSE CredDocs(now)

\* The response callback (lines 81-91): a status outside [200, 300) resolves
\* the promise with null; the body is read in either case.
Response(f, statusCode) ==
    /\ NoMicrotask
    /\ f.phase = "sent"
    /\ fetches' = Replace(f, [f EXCEPT !.phase = "body",
                                       !.statusCode = statusCode,
                                       !.settled = IsFailureStatus(statusCode)])
    /\ IF IsFailureStatus(statusCode)
       THEN Resolved(f.owner, f.origin, f.call, Null, f.issuedAt, timers)
       ELSE UNCHANGED <<lastResponse, stopNeeded, callbackCalls, awsEnv, timers,
                        timeoutHandle, nextTimerId, hubCalls, unhandled, fetchRejected>>
    /\ UNCHANGED <<now, sdoStopUrl, sdoCredentialsUrl, hasCallback,
                   allProviders, nextFetchId, initCount, destroyed, destroyCalls, hostCalls>>

\* response.on("data"): data += chunk  (lines 89-91).  The first chunk fixes
\* the document being sent, cut into n chunks; later events bring the rest.
Data(f, d, n) ==
    /\ NoMicrotask
    /\ f.phase = "body"
    /\ IF f.data = <<>>
       THEN fetches' = Replace(f, [f EXCEPT !.data = <<Chunk(d, 1, n)>>,
                                            !.body = Tail(BodyOf(d, n))])
       ELSE /\ f.body # <<>>
            /\ d = f.body[1].doc
            /\ n = f.body[1].of
            /\ fetches' = Replace(f, [f EXCEPT !.data = Append(@, Head(f.body)),
                                               !.body = Tail(@)])
    /\ UNCHANGED <<now, sdoStopUrl, sdoCredentialsUrl, awsEnv, hasCallback,
                   callbackCalls, stopNeeded, allProviders, hubCalls,
                   timeoutHandle, timers, nextTimerId,
                   nextFetchId, initCount, destroyed, destroyCalls, lastResponse, unhandled, fetchRejected, hostCalls>>

\* The "end" handler parses the body if the status was 2xx (line 93).
EndParses(f) == ~IsFailureStatus(f.statusCode)

\* response.on("end"): lines 92-102.  resolve() on a settled promise does
\* nothing.
End(f) ==
    /\ NoMicrotask
    /\ f.phase = "body"
    /\ f.body = <<>>
    /\ fetches' = fetches \ {f}
    /\ IF EndParses(f) /\ ~f.settled
       THEN Resolved(f.owner, f.origin, f.call, EndResult(f.data), f.issuedAt,
                     timers)
       ELSE UNCHANGED <<lastResponse, stopNeeded, callbackCalls, awsEnv, timers,
                        timeoutHandle, nextTimerId, hubCalls, unhandled, fetchRejected>>
    /\ UNCHANGED <<now, sdoStopUrl, sdoCredentialsUrl, hasCallback,
                   allProviders, nextFetchId, initCount, destroyed, destroyCalls, hostCalls>>

\* request.on("error"): lines 105-108, before any response.
RequestError(f) ==
    /\ NoMicrotask
    /\ f.phase = "sent"
    /\ fetches' = fetches \ {f}
    /\ Resolved(f.owner, f.origin, f.call, Null, f.issuedAt, timers)
    /\ UNCHANGED <<now, sdoStopUrl, sdoCredentialsUrl, hasCallback,
                   allProviders, nextFetchId, initCount, destroyed, destroyCalls, hostCalls>>

\* ------------------------------------------------------------------- the clock
\* Time passes when no callback is runnable, up to the next timer deadline.
Advance ==
    /\ NoMicrotask
    /\ now < MaxTime
    /\ \A t \in timers : ~Due(t)
    /\ now' = Min({now + TimeStep} \cup {t.deadline : t \in timers})
    /\ UNCHANGED <<sdoStopUrl, sdoCredentialsUrl, awsEnv, hasCallback,
                   callbackCalls, stopNeeded, allProviders, hubCalls,
                   timeoutHandle, timers, nextTimerId, fetches,
                   nextFetchId, initCount, destroyed, destroyCalls, lastResponse, unhandled, fetchRejected, hostCalls>>

Next ==
    \/ \E extra \in SUBSET CredProviders : HubInitialize(extra)
    \/ \E k \in 1..Len(hubCalls) : HubInitReturn(k)
    \/ HubStop
    \/ \E p \in CredProviders : CredInitialize(p)
    \/ \E p \in CredProviders : CredDestroy(p)
    \/ \E t \in timers : StopTick(t)
    \/ \E t \in timers : CredTimerFire(t)
    \/ \E f \in fetches, statusCode \in StatusCodes : Response(f, statusCode)
    \/ \E f \in fetches, n \in 1..MaxChunks :
          \E d \in DocsFor(f.owner, f.statusCode) : Data(f, d, n)
    \/ \E f \in fetches : End(f)
    \/ \E f \in fetches : RequestError(f)
    \/ Advance

Spec == Init /\ [][Next]_vars

TypeOK ==
    /\ now \in Nat
    /\ stopNeeded \in BOOLEAN
    /\ \A t \in timers : t.owner \in Providers /\ t.id < nextTimerId
    /\ \A f \in fetches : f.owner \in Providers /\ f.id < nextFetchId


\* ======================================================================
\* Properties
\* ======================================================================
StopTrue == Doc("stopobj", TRUE, 0, {}, 0)
StopFalse == Doc("stopobj", FALSE, 0, {}, 0)
BareTrue == Doc("bool", TRUE, 0, {}, 0)

\* The StopProvider that call k of SdoNotifications.initialize() created.
StopProviderOf(k) == NumCred + k

\* C1: the stop flag is monotonic: no step of the system, whatever a later
\* poll returns and whatever the host calls, takes shouldStop() from true
\* back to false.
C1_StopFlagMonotonic == [][shouldStop => shouldStop']_vars

\* C1 witness: the only StopProvider polled twice; the first poll requested
\* the stop, the later one answered {"stop": false}, and the flag is still up.
C1_Witness ==
    /\ shouldStop
    /\ Len(hubCalls) = 1
    /\ lastResponse[StopProviderOf(1)] = StopFalse

\* The polls of StopProvider sp answered so far were all 2xx {"stop": true}.
OnlyStopTrueServed(sp) ==
    /\ lastResponse[sp] \in {NoResponse, StopTrue}
    /\ \A f \in fetches :
          f.owner = sp =>
             /\ ~IsFailureStatus(f.statusCode) \/ f.phase = "sent"
             /\ f.data = <<>> \/ f.data[1].doc = StopTrue

\* C2 as stated: with the stop URL configured and every poll answered by
\* 2xx {"stop": true}, shouldStop() is true once more than one polling
\* interval has passed since initialize() returned.
C2_WithinOneInterval ==
    \A k \in 1..Len(hubCalls) :
        ( /\ hubCalls[k].returned
          /\ sdoStopUrl = "valid"
          /\ ~destroyed[StopProviderOf(k)]
          /\ OnlyStopTrueServed(StopProviderOf(k))
          /\ now > hubCalls[k].returnedAt + stopPollIntervalMs )
        => shouldStop

\* C2 amended: no poll is issued before one polling interval after the
\* initialize() call that armed the interval (polls are issued at whole
\* multiples of it), shouldStop() is false until then, and it is true as soon
\* as a poll has completely received a 2xx {"stop": true} response: one
\* interval plus the response time after initialize().
C2_AfterFirstPollCompletes ==
    /\ \A k \in 1..Len(hubCalls) :
          /\ lastResponse[StopProviderOf(k)] = StopTrue => shouldStop
          /\ \A f \in fetches :
                f.owner = StopProviderOf(k) =>
                   /\ f.issuedAt >= hubCalls[k].calledAt + 5000
                   /\ (f.issuedAt - hubCalls[k].calledAt) % 5000 = 0
    /\ shouldStop =>
          \E k \in 1..Len(hubCalls) : now >= hubCalls[k].calledAt + 5000

\* C2 witness: the poll issued at 5000 ms was answered after the clock had
\* moved on, and the flag is up.
C2_Witness ==
    /\ shouldStop
    /\ Len(hubCalls) = 1
    /\ hubCalls[1].calledAt = 0
    /\ lastResponse[StopProviderOf(1)] = StopTrue
    /\ now > 5000
    /\ nextFetchId = 2

\* C3: once a poll has completely received a status-200 response whose body
\* is the bare boolean true, shouldStop() is true.
C3_BareTrueStops ==
    \A sp \in StopProviders : lastResponse[sp] = BareTrue => shouldStop

\* C4: no promise returned by fetchUrl is ever rejected.
C4_FetchNeverRejects == ~fetchRejected


\* C5: the delay a CredentialProvider cycle hands to setTimeout is never
\* zero or negative.
C5_DelayIsPositive ==
    \A t \in timers : ~t.repeat => t.delay > 0

\* C6: once destroy() has run on a provider (and the host has not called
\* initialize() on it again) the provider has no armed timer.
C6_NoTimerAfterDestroy ==
    \A p \in Providers : destroyed[p] => \A t \in timers : t.owner # p

\* C7: every call of SdoNotifications.initialize() has exactly one built-in
\* StopProvider in its set, has started initialize() on every provider of
\* the set (the StopProvider's interval is armed, each awaited provider has a
\* request open), returns only when every provider's promise has settled,
\* and then fulfils, also when a provider's initialize() rejected.
C7_InitializeJoinsAll ==
    \A k \in 1..Len(hubCalls) :
        LET c == hubCalls[k] IN
        /\ c.providers \cap StopProviders = {StopProviderOf(k)}
        /\ \A p \in c.providers : initCount[p] >= 1
        /\ timeoutHandle[StopProviderOf(k)] # 0
        /\ c.awaiting = {f.owner : f \in {g \in fetches : g.call = k /\ ~g.settled}}
        /\ c.rejected \subseteq c.providers \ c.awaiting
        /\ IF c.returned
           THEN c.awaiting = {} /\ c.result = "fulfilled"
           ELSE c.result = "pending"

\* C7 witness: initialize() has returned although a provider's initialize()
\* rejected, and the StopProvider of that call has its interval armed.
C7_Witness ==
    \E k \in 1..Len(hubCalls) :
        /\ hubCalls[k].returned
        /\ hubCalls[k].rejected # {}
        /\ \E t \in timers : t.owner = StopProviderOf(k) /\ t.repeat

\* C8: stop() after the one initialize() has returned, with no request open
\* and no other initialize() on the providers, leaves no timer of any
\* provider of the set armed; stop() before any initialize() changes nothing.
C8_StopPre ==
    /\ Len(hubCalls) = 1
    /\ hubCalls[1].returned
    /\ InFlight = {}
    /\ \A p \in hubCalls[1].providers : initCount[p] = 1

C8_StopPost ==
    \A t \in timers : t.owner \notin hubCalls[1].providers

C8_StopCancelsAll ==
    [][ /\ (HubStop /\ C8_StopPre) => C8_StopPost'
        /\ (HubStop /\ Len(hubCalls) = 0) =>
              UNCHANGED <<timers, timeoutHandle, stopNeeded, awsEnv, destroyed>>
      ]_vars

\* C8 witness: initialize([credential provider]) and then stop() were the
\* only host calls; the provider had armed a timer, and none is armed now.
C8_Witness ==
    /\ hostCalls = 2
    /\ Len(hubCalls) = 1
    /\ hubCalls[1].returned
    /\ hubCalls[1].providers = {1, StopProviderOf(1)}
    /\ timeoutHandle[1] # 0
    /\ destroyed[1] /\ destroyed[StopProviderOf(1)]
    /\ timers = {}
    /\ fetches = {}

\* The request f of a CredentialProvider has received a whole 2xx body that
\* holds a record for the role key.
CredSuccess(f) ==
    /\ f.owner \in CredProviders
    /\ f.phase = "body"
    /\ f.body = <<>>
    /\ ~f.settled
    /\ f.statusCode >= 200 /\ f.statusCode < 300
    /\ Len(f.data) > 0
    /\ f.data = BodyOf(f.data[1].doc, f.data[1].of)
    /\ f.data[1].doc.kind = "creds"
    /\ "AwsAccess" \in f.data[1].doc.roles

\* C9: the step that ends such a request writes the four slots from the
\* role's record and arms exactly one one-shot timer of that provider, kept
\* in its timeoutHandle, with delay expirationEpoch - now - 60000 for the
\* clock at that step; and the step that fires a CredentialProvider's timer
\* issues the next request when the credentials URL is a URL.
C9_CycleSetsAndRearms ==
    [][ /\ \A f \in fetches \ fetches' :
              CredSuccess(f) =>
                 LET r == f.data[1].doc
                     c == CredentialRecords[r.cred]
                 IN  /\ awsEnv'.AWS_ACCESS_KEY_ID = c.accessKeyId
                     /\ awsEnv'.AWS_SECRET_ACCESS_KEY = c.secretAccessKey
                     /\ awsEnv'.AWS_SESSION_TOKEN = c.sessionToken
                     /\ awsEnv'.AWS_DEFAULT_REGION = c.region
                     /\ \E t \in timers' \ timers :
                           /\ timers' = timers \cup {t}
                           /\ t.owner = f.owner
                           /\ ~t.repeat
                           /\ t.delay = r.exp - now - 60000
                           /\ t.deadline = now + (IF t.delay < 1 THEN 1 ELSE t.delay)
                           /\ timeoutHandle'[f.owner] = t.id
        /\ \A t \in timers \ timers' :
              (~t.repeat /\ hostCalls' = hostCalls /\ sdoCredentialsUrl = "valid") =>
                 \E f \in fetches' \ fetches :
                    f.owner = t.owner /\ f.phase = "sent" /\ f.issuedAt = now
      ]_vars

\* C9 witness: one host call started the chain; the second request, issued
\* by the timer, took 5000 ms, so the timer it armed got the delay
\* 65000 - 5000 - 60000 = 0.
C9_Witness ==
    /\ hostCalls = 1
    /\ nextFetchId = 3
    /\ fetches = {}
    /\ awsEnv = EnvFrom(CredentialRecords[1])
    /\ \E t \in timers :
          /\ t.owner \in CredProviders
          /\ t.delay = 0
          /\ timeoutHandle[t.owner] = t.id

\* C10: a step changes an environment slot or arms a CredentialProvider
\* timer only by ending a request that received a payload with the role
\* key: a cycle whose fetch resolves to null, rejects, or whose payload
\* lacks the key leaves the slots alone and arms nothing.
C10_OnlySuccessWritesAndArms ==
    [][ (awsEnv' # awsEnv \/ \E t \in timers' \ timers : t.owner \in CredProviders)
            => \E f \in fetches \ fetches' : CredSuccess(f) ]_vars

\* C10 witness: initialize([credential provider]) issued one request which
\* has ended; no promise rejected, the slots are unset and the provider has
\* never armed a timer.
C10_Witness ==
    /\ Len(hubCalls) = 1
    /\ hubCalls[1].returned
    /\ hubCalls[1].providers = {1, StopProviderOf(1)}
    /\ hubCalls[1].rejected = {}
    /\ sdoCredentialsUrl = "valid"
    /\ nextFetchId = 2
    /\ fetches = {}
    /\ awsEnv = UnsetEnv
    /\ timeoutHandle[1] = 0

\* The step ends the request f of a StopProvider in failure: a transport
\* error or a status outside [200, 300) while the request is out, or the end
\* of a 2xx body that is not valid JSON.
StopFetchFails(f) ==
    /\ f.owner \in StopProviders
    /\ ~f.settled
    /\ \A g \in fetches' : g.id = f.id => g.settled
    /\ \/ f.phase = "sent"
       \/ f.phase = "body" /\ f.body = <<>> /\ ~JSONParses(f.data)

\* C11: a StopProvider tick whose fetch fails (transport error, non-2xx
\* status, invalid JSON, or no stop URL so that no request is made) is
\* swallowed: the step raises no unhandled rejection, rejects no promise,
\* leaves the stop flag and every timer alone and the tick sees null; and
\* whatever step is taken, an armed interval of a provider that has not
\* been destroyed stays armed with its 5000 ms period, its next deadline
\* moving only when it fires, to 5000 ms later.
C11_PollingSurvivesFailures ==
    [][ /\ \A f \in fetches :
              StopFetchFails(f) =>
                 /\ unhandled' = unhandled
                 /\ fetchRejected' = fetchRejected
                 /\ stopNeeded' = stopNeeded
                 /\ callbackCalls' = callbackCalls
                 /\ timers' = timers
                 /\ lastResponse'[f.owner] = Null
        /\ \A t \in timers :
              (t.repeat /\ Due(t) /\ t \notin timers' /\ sdoStopUrl = "absent") =>
                 /\ unhandled' = unhandled
                 /\ fetchRejected' = fetchRejected
                 /\ stopNeeded' = stopNeeded
                 /\ fetches' = fetches
        /\ \A t \in timers :
              (t.repeat /\ ~destroyed'[t.owner]) =>
                 \E u \in timers' :
                    /\ u.id = t.id /\ u.owner = t.owner /\ u.repeat
                    /\ u.delay = 5000
                    /\ IF u.deadline = t.deadline THEN TRUE
                       ELSE Due(t) /\ u.deadline = now + 5000
      ]_vars

\* C11 witness: the poll of 5000 ms failed, nothing was raised, and the
\* poll of 10000 ms is out while the interval is armed for the next one.
C11_Witness ==
    /\ Len(hubCalls) = 1
    /\ lastResponse[StopProviderOf(1)] = Null
    /\ ~unhandled /\ ~fetchRejected /\ ~shouldStop
    /\ \E f \in fetches :
          f.owner = StopProviderOf(1) /\ f.issuedAt = 10000
    /\ \E t \in timers :
          t.owner = StopProviderOf(1) /\ t.repeat /\ t.deadline = 15000


\* C12: a step that calls initialize() on a provider on which initialize()
\* and then destroy() have run starts no request and arms no timer.
C12_InitAfterDestroyIsNoOp ==
    [][ \A p \in Providers :
           (initCount[p] >= 1 /\ destroyed[p] /\ initCount'[p] > initCount[p])
              => /\ \A f \in fetches' \ fetches : f.owner # p
                 /\ \A t \in timers' \ timers : t.owner # p ]_vars

C14_AbsentUrlResolvesNull ==
    /\ sdoStopUrl = "absent" =>
          /\ \A f \in fetches : f.owner \notin StopProviders
          /\ \A k \in 1..Len(hubCalls) :
                /\ lastResponse[StopProviderOf(k)] \in {NoResponse, Null}
                /\ (\E t \in timers :
                       /\ t.owner = StopProviderOf(k)
                       /\ t.deadline > hubCalls[k].calledAt + 5000)
                      => lastResponse[StopProviderOf(k)] = Null
    /\ sdoCredentialsUrl = "absent" =>
          /\ \A f \in fetches : f.owner \notin CredProviders
          /\ \A k \in 1..Len(hubCalls) :
                hubCalls[k].awaiting = {} /\ hubCalls[k].rejected = {}
          /\ awsEnv = UnsetEnv
          /\ \A p \in CredProviders : timeoutHandle[p] = 0
    /\ (sdoStopUrl = "absent" /\ sdoCredentialsUrl = "absent") =>
          nextFetchId = 1 /\ fetches = {} /\ ~fetchRejected /\ ~unhandled

\* C14 witness: both URLs absent; initialize([credential provider]) has
\* returned, the StopProvider has ticked, and no request was ever issued.
C14_Witness ==
    /\ sdoStopUrl = "absent" /\ sdoCredentialsUrl = "absent"
    /\ Len(hubCalls) = 1
    /\ hubCalls[1].providers = {1, StopProviderOf(1)}
    /\ hubCalls[1].returned
    /\ lastResponse[StopProviderOf(1)] = Null
    /\ nextFetchId = 1

\* C15: the step that receives a response whose status is outside
\* [200, 300) resolves the promise with null at once, whatever body follows:
\* a tick sees null and leaves the stop flag alone, a credential cycle
\* returns without writing the environment or arming a timer, nothing
\* rejects; and the "data" and "end" steps of such a response deliver
\* nothing: they change no state of the program.
C15_FailureStatusResolvesNull ==
    [][ \A f \in fetches :
          /\ \A g \in fetches' :
                ( /\ g.id = f.id /\ f.phase = "sent" /\ g.phase = "body"
                  /\ (g.statusCode < 200 \/ g.statusCode >= 300) )
                => /\ g.settled
                   /\ fetchRejected' = fetchRejected
                   /\ unhandled' = unhandled
                   /\ f.owner \in StopProviders =>
                         /\ lastResponse'[f.owner] = Null
                         /\ stopNeeded' = stopNeeded
                         /\ callbackCalls' = callbackCalls
                   /\ f.owner \in CredProviders =>
                         /\ awsEnv' = awsEnv
                         /\ timers' = timers
                         /\ timeoutHandle' = timeoutHandle
                         /\ f.call # 0 =>
                               /\ f.owner \notin hubCalls'[f.call].awaiting
                               /\ f.owner \notin hubCalls'[f.call].rejected
          /\ ( /\ f.phase = "body" /\ f \notin fetches'
               /\ (f.statusCode < 200 \/ f.statusCode >= 300) )
             => /\ f.settled
                /\ UNCHANGED <<lastResponse, stopNeeded, callbackCalls, awsEnv,
                               timers, timeoutHandle, hubCalls, unhandled,
                               fetchRejected>>
      ]_vars

\* C15 witness: a poll was answered 404 with the whole text of
\* {"stop": true} as its body; the tick saw null and the flag is down.
C15_Witness ==
    /\ ~shouldStop
    /\ \E f \in fetches :
          /\ f.owner \in StopProviders
          /\ f.statusCode = 404
          /\ f.settled
          /\ f.body = <<>>
          /\ Len(f.data) > 0
          /\ f.data = BodyOf(StopTrue, Len(f.data))
          /\ lastResponse[f.owner] = Null

\* C16: the "end" step of a 2xx response whose accumulated body is empty or
\* not valid JSON resolves the promise with null (a tick sees null and
\* leaves the flag alone, a credential cycle returns without writing or
\* arming, nothing rejects); and neither the arrival of a 2xx response nor
\* a "data" step delivers anything: the promise stays pending and no state
\* of the program changes before the "end" step.
C16_InvalidJsonResolvesNull ==
    [][ \A f \in fetches :
          /\ ( /\ f.phase = "body" /\ f.body = <<>> /\ ~f.settled
               /\ f.statusCode >= 200 /\ f.statusCode < 300
               /\ \A g \in fetches' : g.id # f.id
               /\ (Len(f.data) = 0 \/ f.data[1].doc.kind = "garbage") )
             => /\ fetchRejected' = fetchRejected
                /\ unhandled' = unhandled
                /\ f.owner \in StopProviders =>
                      /\ lastResponse'[f.owner] = Null
                      /\ stopNeeded' = stopNeeded
                      /\ callbackCalls' = callbackCalls
                /\ f.owner \in CredProviders =>
                      /\ awsEnv' = awsEnv
                      /\ timers' = timers
                      /\ timeoutHandle' = timeoutHandle
                      /\ f.call # 0 =>
                            /\ f.owner \notin hubCalls'[f.call].awaiting
                            /\ f.owner \notin hubCalls'[f.call].rejected
          /\ \A g \in fetches' :
                ( /\ g.id = f.id /\ g # f
                  /\ g.statusCode >= 200 /\ g.statusCode < 300 )
                => /\ ~g.settled
                   /\ UNCHANGED <<lastResponse, stopNeeded, callbackCalls,
                                  awsEnv, timers, timeoutHandle, hubCalls,
                                  unhandled, fetchRejected>>
      ]_vars

\* C16 witness: the first of two chunks of the text of {"stop": true} has
\* arrived with status 200; the tick is still waiting and the flag is down.
C16_Witness ==
    /\ ~shouldStop
    /\ \E f \in fetches :
          /\ f.owner \in StopProviders
          /\ f.statusCode = 200
          /\ ~f.settled
          /\ f.data = <<Chunk(StopTrue, 1, 2)>>
          /\ Len(f.body) = 1
          /\ lastResponse[f.owner] = NoResponse

\* C17: with the stop URL unset, in every reachable state shouldStop() is
\* false, the external callback has never run, no StopProvider has a request
\* and every tick saw null; and stop() has done its work: a StopProvider it
\* destroyed has no armed interval.
C17_UnsetStopUrlNeverStops ==
    sdoStopUrl = "absent" =>
       /\ ~shouldStop
       /\ callbackCalls = 0
       /\ \A f \in fetches : f.owner \notin StopProviders
       /\ \A sp \in StopProviders :
             /\ lastResponse[sp] \in {NoResponse, Null}
             /\ destroyed[sp] => \A t \in timers : t.owner # sp

\* C17 witness: stop URL unset; the interval has ticked and the tick saw
\* null, the flag stayed down, stop() cancelled the interval, and the clock
\* has reached 10000 ms.
C17_Witness ==
    /\ sdoStopUrl = "absent"
    /\ Len(hubCalls) = 1
    /\ now = 10000
    /\ lastResponse[StopProviderOf(1)] = Null
    /\ ~shouldStop
    /\ destroyed[StopProviderOf(1)]
    /\ hubCalls[1].calledAt = 0
    /\ \A t \in timers : t.owner # StopProviderOf(1)

\* C18: in every reachable state each provider instance has at most one
\* armed timer.
C18_OneLiveTimerPerProvider ==
    \A p \in Providers : Cardinality({t \in timers : t.owner = p}) <= 1

\* C20: a stop() made while no request is out leaves no StopProvider
\* interval armed, however many times initialize() was called before it.
C20_StopCancelsEveryInterval ==
    [][ (HubStop /\ fetches = {}) =>
           \A t \in timers' : t.owner \notin StopProviders ]_vars

\* C19: in every state a callback can observe, the four environment slots
\* were never written or hold the four fields of one and the same
\* credential record.
C19_SlotsFromOneRecord ==
    \/ awsEnv = UnsetEnv
    \/ \E c \in 1..Len(CredentialRecords) :
          /\ awsEnv.AWS_ACCESS_KEY_ID = CredentialRecords[c].accessKeyId
          /\ awsEnv.AWS_SECRET_ACCESS_KEY = CredentialRecords[c].secretAccessKey
          /\ awsEnv.AWS_SESSION_TOKEN = CredentialRecords[c].sessionToken
          /\ awsEnv.AWS_DEFAULT_REGION = CredentialRecords[c].region

\* C19 witness: a cycle that received the first record armed a timer, a
\* later cycle received the second record, and all four slots now hold the
\* second record's fields.
C19_Witness ==
    /\ awsEnv.AWS_ACCESS_KEY_ID = "idB"
    /\ awsEnv.AWS_DEFAULT_REGION = "regionB"
    /\ \E t1, t2 \in timers :
          /\ t1.owner \in CredProviders /\ t2.owner \in CredProviders
          /\ t1.id < t2.id
          /\ t1.delay >= 0
          /\ t2.delay < 0

====
